---- MODULE Spec2Model ----
(***************************************************************************)
(* A model of @corvid-agent/result (src/src/index.ts): the Result value    *)
(* type, its methods and the collection combinators.                       *)
(*                                                                         *)
(* Result instances are objects with identity: the heap is a sequence of   *)
(* instances and a reference is an index into it.  Every method is an      *)
(* operator from the heap before the call to an outcome: the heap after    *)
(* the call, what was returned or thrown, and the callbacks it invoked.    *)
(***************************************************************************)
EXTENDS Integers, Sequences, FiniteSets

VARIABLES heap, last, chain, tasks

vars == <<heap, last, chain, tasks>>

(***************************************************************************)
(* Bounds of the model.                                                    *)
(***************************************************************************)
MaxHeap == 2
MaxLen == 2
MaxElems == 3
MaxResults == 3
MaxChain == 3
MaxTasks == 2

(***************************************************************************)
(* JavaScript values that occur as payloads.                               *)
(***************************************************************************)
Num(n) == [kind |-> "number", n |-> n]
Str(s) == [kind |-> "string", s |-> s]
ErrorObj(id, message) == [kind |-> "Error", id |-> id, message |-> message]
Arr(items) == [kind |-> "array", items |-> items]
Absent == [kind |-> "absent"]
Null == [kind |-> "null"]
Bool(b) == [kind |-> "boolean", b |-> b]
Undefined == [kind |-> "undefined"]

Digit == <<"0", "1", "2", "3", "4", "5", "6", "7", "8", "9">>

RECURSIVE NumToStr(_)
NumToStr(n) ==
  IF n < 0 THEN "-" \o NumToStr(0 - n)
  ELSE IF n < 10 THEN Digit[n + 1]
  ELSE NumToStr(n \div 10) \o Digit[(n % 10) + 1]

RECURSIVE String(_)
RECURSIVE Join(_)
String(p) ==
  CASE p.kind = "number" -> NumToStr(p.n)
    [] p.kind = "string" -> p.s
    [] p.kind = "Error" -> "Error: " \o p.message
    [] p.kind = "array" -> Join(p.items)
    [] p.kind = "null" -> "null"
    [] p.kind = "boolean" -> IF p.b THEN "true" ELSE "false"
    [] OTHER -> "undefined"

Join(items) ==
  IF Len(items) = 0 THEN ""
  ELSE IF Len(items) = 1 THEN String(items[1])
  ELSE String(items[1]) \o "," \o Join(Tail(items))

InstanceofError(p) == p.kind = "Error"

(***************************************************************************)
(* Error objects have identity: a new Error differs from every Error that  *)
(* a live Result holds.                                                    *)
(***************************************************************************)
RECURSIVE MaxErrorId(_)
MaxErrorId(p) ==
  CASE p.kind = "Error" -> p.id
    [] p.kind = "array" ->
         IF Len(p.items) = 0 THEN 0
         ELSE LET a == MaxErrorId(p.items[1])
                  b == MaxErrorId(Arr(Tail(p.items)))
              IN IF a > b THEN a ELSE b
    [] OTHER -> 0

RECURSIVE HeapMaxErrorId(_)
HeapMaxErrorId(h) ==
  IF Len(h) = 0 THEN 0
  ELSE LET o == h[Len(h)]
           a == MaxErrorId(o.value)
           b == MaxErrorId(o.error)
           c == HeapMaxErrorId(SubSeq(h, 1, Len(h) - 1))
           m == IF a > b THEN a ELSE b
       IN IF m > c THEN m ELSE c

NewError(h, message) == ErrorObj(HeapMaxErrorId(h) + 1, message)

(***************************************************************************)
(* Outcomes of a call.                                                     *)
(***************************************************************************)
NoCalls == <<>>

Returned(h, ref, calls) ==
  [heap |-> h, kind |-> "ref", ref |-> ref, val |-> Absent, calls |-> calls]

ReturnedValue(h, val, calls) ==
  [heap |-> h, kind |-> "value", ref |-> 0, val |-> val, calls |-> calls]

Thrown(h, val, calls) ==
  [heap |-> h, kind |-> "throw", ref |-> 0, val |-> val, calls |-> calls]

Invocation(slot, fn, arg) == [slot |-> slot, fn |-> fn, arg |-> arg]

(***************************************************************************)
(* The callbacks the callers pass, after those of the tests; none of them  *)
(* throws.  inc is x => x + 1, fmt is v => `value: ${v}`, fmtErr is        *)
(* e => `error: ${e}` and any other name is () => 99.  The Result-         *)
(* returning ones are okPlus5 (x => ok(x + 5)), innerFail                  *)
(* (() => err("inner fail")) and checkSmall, which keeps a number above 15 *)
(* and fails with "too small" on anything else.                            *)
(***************************************************************************)
ValueFns == {"inc", "fmt"}
ResultFns == {"okPlus5", "innerFail", "checkSmall"}

Call(fn, x) ==
  CASE fn = "inc" -> IF x.kind = "number" THEN Num(x.n + 1)
                     ELSE Str(String(x) \o "1")
    [] fn = "fmt" -> Str("value: " \o String(x))
    [] fn = "fmtErr" -> Str("error: " \o String(x))
    [] OTHER -> Num(99)

Plus(x, k) ==
  IF x.kind = "number" THEN Num(x.n + k) ELSE Str(String(x) \o NumToStr(k))

(***************************************************************************)
(* A function passed to flatMap is one of the callbacks above or the       *)
(* closure x => f(x).flatMap(g).                                           *)
(***************************************************************************)
Prim(name) == [kind |-> "prim", name |-> name]
Nested(f, g) == [kind |-> "nested", f |-> f, g |-> g]

(***************************************************************************)
(* createOk and createErr: the two constructors and the methods of the     *)
(* objects they build.  self is the reference of the receiver.             *)
(***************************************************************************)
OkObject(value) ==
  [ctor |-> "createOk", ok |-> TRUE, value |-> value, error |-> Absent]

ErrObject(error) ==
  [ctor |-> "createErr", ok |-> FALSE, value |-> Absent, error |-> error]

createOk(h, value) == Returned(Append(h, OkObject(value)), Len(h) + 1, NoCalls)

createErr(h, error) == Returned(Append(h, ErrObject(error)), Len(h) + 1, NoCalls)

ok(h, value) == createOk(h, value)

err(h, error) == createErr(h, error)

createOk_isOk(h, self) == TRUE

createOk_isErr(h, self) == FALSE

createErr_isOk(h, self) == FALSE

createErr_isErr(h, self) == TRUE

createOk_map(h, self, fn) ==
  LET c == createOk(h, Call(fn, h[self].value))
  IN Returned(c.heap, c.ref, <<Invocation("fn", fn, h[self].value)>>)

createOk_mapErr(h, self, fn) == Returned(h, self, NoCalls)

createErr_map_callsFn(h, self, fn) ==
  LET c == createErr(h, Call(fn, h[self].error))
  IN Returned(c.heap, c.ref, <<Invocation("fn", fn, h[self].error)>>)

createErr_map(h, self, fn) == Returned(h, self, NoCalls)

createErr_mapErr_inPlace(h, self, fn) ==
  Returned([h EXCEPT ![self].error = Call(fn, h[self].error)], self,
           <<Invocation("fn", fn, h[self].error)>>)

createErr_mapErr(h, self, fn) ==
  LET c == createErr(h, Call(fn, h[self].error))
  IN Returned(c.heap, c.ref, <<Invocation("fn", fn, h[self].error)>>)

RECURSIVE Apply(_, _, _)

createOk_flatMap_keepSelfOnErr(h, self, fn) ==
  LET r == Apply(h, fn, h[self].value)
  IN IF r.heap[r.ref].ok THEN r ELSE Returned(r.heap, self, r.calls)

createOk_flatMap(h, self, fn) == Apply(h, fn, h[self].value)

createErr_flatMap_callsFn(h, self, fn) == Apply(h, fn, h[self].error)

createErr_flatMap(h, self, fn) == Returned(h, self, NoCalls)

flatMap(h, self, fn) ==
  IF h[self].ctor = "createOk" THEN createOk_flatMap(h, self, fn)
  ELSE createErr_flatMap(h, self, fn)

CallResultFn(h, name, x) ==
  CASE name = "okPlus5" -> ok(h, Plus(x, 5))
    [] name = "innerFail" -> err(h, Str("inner fail"))
    [] OTHER -> IF x.kind = "number" /\ x.n > 15 THEN ok(h, x)
                ELSE err(h, Str("too small"))

Apply(h, fn, x) ==
  IF fn.kind = "prim"
  THEN LET r == CallResultFn(h, fn.name, x)
       IN Returned(r.heap, r.ref, <<Invocation("fn", fn.name, x)>>)
  ELSE LET a == Apply(h, fn.f, x)
           b == flatMap(a.heap, a.ref, fn.g)
       IN Returned(b.heap, b.ref, a.calls \o b.calls)

createOk_match(h, self, cases) ==
  ReturnedValue(h, Call(cases.ok, h[self].value),
                <<Invocation("ok", cases.ok, h[self].value)>>)

createErr_match_bothHandlers(h, self, cases) ==
  ReturnedValue(h, Call(cases.err, h[self].error),
                <<Invocation("ok", cases.ok, h[self].value),
                  Invocation("err", cases.err, h[self].error)>>)

createErr_match(h, self, cases) ==
  ReturnedValue(h, Call(cases.err, h[self].error),
                <<Invocation("err", cases.err, h[self].error)>>)

createOk_unwrap(h, self) == ReturnedValue(h, h[self].value, NoCalls)

createOk_unwrapOr(h, self, fallback) == ReturnedValue(h, h[self].value, NoCalls)

createOk_unwrapOrElse(h, self, fn) == ReturnedValue(h, h[self].value, NoCalls)

createOk_unwrapErr(h, self) ==
  Thrown(h, NewError(h, "Called unwrapErr() on an Ok result"), NoCalls)

createErr_unwrap_alwaysWraps(h, self) ==
  Thrown(h, NewError(h, String(h[self].error)), NoCalls)

createErr_unwrap(h, self) ==
  Thrown(h, IF InstanceofError(h[self].error) THEN h[self].error
            ELSE NewError(h, String(h[self].error)), NoCalls)

createErr_unwrapOr(h, self, fallback) == ReturnedValue(h, fallback, NoCalls)

createErr_unwrapOrElse(h, self, fn) ==
  ReturnedValue(h, Call(fn, h[self].error),
                <<Invocation("fn", fn, h[self].error)>>)

createErr_unwrapErr(h, self) == ReturnedValue(h, h[self].error, NoCalls)

JsonOk(value) == [kind |-> "object", ok |-> TRUE, value |-> value]

JsonErr(error) == [kind |-> "object", ok |-> FALSE, error |-> error]

createOk_toJSON(h, self) == ReturnedValue(h, JsonOk(h[self].value), NoCalls)

createErr_toJSON_textOfError(h, self) ==
  ReturnedValue(h, JsonErr(Str(String(h[self].error))), NoCalls)

createErr_toJSON(h, self) == ReturnedValue(h, JsonErr(h[self].error), NoCalls)

(***************************************************************************)
(* A method call r.m(...) runs the method of the constructor that built r. *)
(***************************************************************************)
isOk(h, r) ==
  IF h[r].ctor = "createOk" THEN createOk_isOk(h, r) ELSE createErr_isOk(h, r)

map(h, r, fn) ==
  IF h[r].ctor = "createOk" THEN createOk_map(h, r, fn)
  ELSE createErr_map(h, r, fn)

mapErr(h, r, fn) ==
  IF h[r].ctor = "createOk" THEN createOk_mapErr(h, r, fn)
  ELSE createErr_mapErr(h, r, fn)

match(h, r, cases) ==
  IF h[r].ctor = "createOk" THEN createOk_match(h, r, cases)
  ELSE createErr_match(h, r, cases)

unwrap(h, r) ==
  IF h[r].ctor = "createOk" THEN createOk_unwrap(h, r)
  ELSE createErr_unwrap(h, r)

unwrapOr(h, r, fallback) ==
  IF h[r].ctor = "createOk" THEN createOk_unwrapOr(h, r, fallback)
  ELSE createErr_unwrapOr(h, r, fallback)

unwrapOrElse(h, r, fn) ==
  IF h[r].ctor = "createOk" THEN createOk_unwrapOrElse(h, r, fn)
  ELSE createErr_unwrapOrElse(h, r, fn)

unwrapErr(h, r) ==
  IF h[r].ctor = "createOk" THEN createOk_unwrapErr(h, r)
  ELSE createErr_unwrapErr(h, r)

toJSON(h, r) ==
  IF h[r].ctor = "createOk" THEN createOk_toJSON(h, r)
  ELSE createErr_toJSON(h, r)

(***************************************************************************)
(* JSON.stringify: a value that has a toJSON method is replaced by what    *)
(* the method returns; a property whose value is undefined is left out; an *)
(* Error has no enumerable property.  The strings of the model hold no     *)
(* character that JSON escapes.                                            *)
(***************************************************************************)
RECURSIVE Serialize(_)
RECURSIVE SerializeItems(_)
SerializeProperty(key, p) ==
  IF p.kind \in {"undefined", "absent"} THEN ""
  ELSE ",\"" \o key \o "\":" \o Serialize(p)

Serialize(p) ==
  CASE p.kind = "number" -> NumToStr(p.n)
    [] p.kind = "string" -> "\"" \o p.s \o "\""
    [] p.kind = "Error" -> "{}"
    [] p.kind = "boolean" -> IF p.b THEN "true" ELSE "false"
    [] p.kind = "array" -> "[" \o SerializeItems(p.items) \o "]"
    [] p.kind = "object" ->
         IF p.ok THEN "{\"ok\":true" \o SerializeProperty("value", p.value) \o "}"
         ELSE "{\"ok\":false" \o SerializeProperty("error", p.error) \o "}"
    [] OTHER -> "null"

SerializeItems(items) ==
  IF Len(items) = 0 THEN ""
  ELSE IF Len(items) = 1 THEN Serialize(items[1])
  ELSE Serialize(items[1]) \o "," \o SerializeItems(Tail(items))

JSONStringify(h, r) ==
  LET out == toJSON(h, r)
  IN ReturnedValue(out.heap, Str(Serialize(out.val)), out.calls)

(***************************************************************************)
(* trySync.  The function it is given takes no argument and either returns *)
(* a value or throws one.                                                  *)
(***************************************************************************)
Returns(val) == [does |-> "return", val |-> val]
Throws(val) == [does |-> "throw", val |-> val]

CallThunk(h, fn) ==
  IF fn.does = "return"
  THEN ReturnedValue(h, fn.val, <<Invocation("fn", fn, Absent)>>)
  ELSE Thrown(h, fn.val, <<Invocation("fn", fn, Absent)>>)

NormalizeError(h, e) ==
  IF InstanceofError(e) THEN e ELSE NewError(h, String(e))

trySync_errOfThrown(h, fn) ==
  LET c == CallThunk(h, fn)
      r == IF c.kind = "value" THEN ok(h, c.val) ELSE err(h, c.val)
  IN Returned(r.heap, r.ref, c.calls)

trySync(h, fn) ==
  LET c == CallThunk(h, fn)
      r == IF c.kind = "value" THEN ok(h, c.val)
           ELSE err(h, NormalizeError(h, c.val))
  IN Returned(r.heap, r.ref, c.calls)

(***************************************************************************)
(* tryAsync and fromPromise.  A call runs up to the await: it calls fn     *)
(* when fn is a function, and then waits for the promise it has got (the   *)
(* source); a fn that throws takes the call to the catch at once.  When    *)
(* the source has settled the call resumes and returns, which resolves the *)
(* promise the caller holds; an exception leaving the body would reject    *)
(* it.  A task is one call: what it was given, its source, where it is,    *)
(* and the state and the Result of the promise the caller holds.           *)
(***************************************************************************)
Pending == [state |-> "pending", val |-> Absent]
Resolved(val) == [state |-> "resolved", val |-> val]
Rejected(val) == [state |-> "rejected", val |-> val]
Threw(val) == [state |-> "threw", val |-> val]

RECURSIVE TasksMaxErrorId(_)
TasksMaxErrorId(ts) ==
  IF Len(ts) = 0 THEN 0
  ELSE LET a == MaxErrorId(ts[Len(ts)].source.val)
           b == TasksMaxErrorId(SubSeq(ts, 1, Len(ts) - 1))
       IN IF a > b THEN a ELSE b

NewErrorAsync(h, ts, message) ==
  LET a == HeapMaxErrorId(h)
      b == TasksMaxErrorId(ts)
  IN ErrorObj((IF a > b THEN a ELSE b) + 1, message)

NormalizeErrorAsync(h, ts, e) ==
  IF InstanceofError(e) THEN e ELSE NewErrorAsync(h, ts, String(e))

Task(via, arg, source, pc, returned, result) ==
  [via |-> via, arg |-> arg, source |-> source, pc |-> pc,
   returned |-> returned, result |-> result]

tryAsync(h, ts, arg, source) ==
  IF arg = "function" /\ source.state = "threw"
  THEN LET r == err(h, NormalizeErrorAsync(h, ts, source.val))
       IN [heap |-> r.heap,
           task |-> Task("tryAsync", arg, source, "done", "resolved", r.ref)]
  ELSE [heap |-> h,
        task |-> Task("tryAsync", arg, source, "await", "pending", 0)]

tryAsync_resume_noCatch(h, ts, task) ==
  IF task.source.state = "resolved"
  THEN LET r == ok(h, task.source.val)
       IN [heap |-> r.heap,
           task |-> [task EXCEPT !.pc = "done", !.returned = "resolved",
                                 !.result = r.ref]]
  ELSE [heap |-> h,
        task |-> [task EXCEPT !.pc = "done", !.returned = "rejected"]]

tryAsync_resume(h, ts, task) ==
  LET r == IF task.source.state = "resolved" THEN ok(h, task.source.val)
           ELSE err(h, NormalizeErrorAsync(h, ts, task.source.val))
  IN [heap |-> r.heap,
      task |-> [task EXCEPT !.pc = "done", !.returned = "resolved",
                            !.result = r.ref]]

fromPromise(h, ts, promise) ==
  LET c == tryAsync(h, ts, "promise", promise)
  IN [heap |-> c.heap, task |-> [c.task EXCEPT !.via = "fromPromise"]]

(***************************************************************************)
(* fromNullable: value != null is false of null and undefined only.        *)
(***************************************************************************)
Truthy(p) ==
  CASE p.kind = "number" -> p.n # 0
    [] p.kind = "string" -> p.s # ""
    [] p.kind = "boolean" -> p.b
    [] p.kind \in {"null", "undefined"} -> FALSE
    [] OTHER -> TRUE

NotEqualNull(p) == p.kind \notin {"null", "undefined"}

fromNullable_truthy(h, value, error) ==
  IF Truthy(value) THEN ok(h, value) ELSE err(h, error)

fromNullable(h, value, error) ==
  IF NotEqualNull(value) THEN ok(h, value) ELSE err(h, error)

(***************************************************************************)
(* The collection combinators.  results is the caller's array (a sequence  *)
(* of references); a combinator's outcome also tells how many elements the *)
(* scan read and what the caller's array holds afterwards.                 *)
(***************************************************************************)
Scanned(out, scanned, results) ==
  [heap |-> out.heap, kind |-> out.kind, ref |-> out.ref, val |-> out.val,
   calls |-> out.calls, scanned |-> scanned, results |-> results]

RECURSIVE allLoop(_, _, _, _)
allLoop(h, results, i, values) ==
  IF i > Len(results) THEN Scanned(ok(h, Arr(values)), i - 1, results)
  ELSE IF ~h[results[i]].ok
       THEN Scanned(Returned(h, results[i], NoCalls), i, results)
       ELSE allLoop(h, results, i + 1, Append(values, h[results[i]].value))

all_scanFromSecond(h, results) == allLoop(h, results, 2, <<>>)

all(h, results) == allLoop(h, results, 1, <<>>)

allTuple(h, results) == allLoop(h, results, 1, <<>>)

RECURSIVE anyLoop(_, _, _)
anyLoop(h, results, i) ==
  IF i > Len(results)
  THEN Scanned(Returned(h, results[Len(results)], NoCalls), i - 1, results)
  ELSE IF isOk(h, results[i])
       THEN Scanned(Returned(h, results[i], NoCalls), i, results)
       ELSE anyLoop(h, results, i + 1)

any_throwsOnEmpty(h, results) ==
  IF Len(results) = 0
  THEN Scanned(Thrown(h, NewError(h, "any() called with empty array"), NoCalls),
               0, results)
  ELSE anyLoop(h, results, 1)

any_firstErr(h, results) ==
  IF Len(results) = 0
  THEN Scanned(err(h, NewError(h, "any() called with empty array")), 0, results)
  ELSE LET out == anyLoop(h, results, 1)
       IN IF h[out.ref].ok THEN out
          ELSE Scanned(Returned(h, results[1], NoCalls), out.scanned, results)

any(h, results) ==
  IF Len(results) = 0
  THEN Scanned(err(h, NewError(h, "any() called with empty array")), 0, results)
  ELSE anyLoop(h, results, 1)

RECURSIVE partitionLoop(_, _, _, _, _)
partitionLoop(h, results, i, successes, failures) ==
  IF i > Len(results)
  THEN Scanned(ReturnedValue(h, Arr(<<Arr(successes), Arr(failures)>>), NoCalls),
               i - 1, results)
  ELSE IF h[results[i]].ok
       THEN partitionLoop(h, results, i + 1,
                          Append(successes, h[results[i]].value), failures)
       ELSE partitionLoop(h, results, i + 1,
                          successes, Append(failures, h[results[i]].error))

partition_dropFirst(h, results) ==
  partitionLoop(h, results, 2, <<>>, <<>>)

partition(h, results) == partitionLoop(h, results, 1, <<>>, <<>>)

(***************************************************************************)
(* The state: the heap of live Result instances, the record of the last    *)
(* call (its arguments as they were before it and its outcome), and the    *)
(* flatMap chain in progress.                                              *)
(***************************************************************************)
NoFn == "none"

Snapshot(h, refs) == [i \in 1..Len(refs) |-> h[refs[i]]]

CallRecord(op, recv, fn, results, out, scanned, resultsAfter) ==
  [op |-> op, recv |-> recv, fn |-> fn, results |-> results,
   self |-> IF recv = 0 THEN Absent ELSE heap[recv],
   elems |-> Snapshot(heap, results), before |-> Len(heap),
   kind |-> out.kind, ref |-> out.ref, val |-> out.val, calls |-> out.calls,
   scanned |-> scanned, resultsAfter |-> resultsAfter]

MethodCall(op, recv, fn, out) ==
  CallRecord(op, recv, fn, <<>>, out, 0, <<>>)

CombinatorCall(op, results, out) ==
  CallRecord(op, 0, NoFn, results, out, out.scanned, out.results)

NoCall ==
  [op |-> "none", recv |-> 0, fn |-> NoFn, results |-> <<>>, self |-> Absent,
   elems |-> <<>>, before |-> 0, kind |-> "none", ref |-> 0, val |-> Absent,
   calls |-> NoCalls, scanned |-> 0, resultsAfter |-> <<>>]

NoChain ==
  [pc |-> "idle", start |-> 0, fns |-> <<>>, refs |-> <<>>, objs |-> <<>>,
   calls |-> <<>>, nested |-> 0]

OkInputs == {Num(10), Num(20)}
ErrInputs == {Str("fail"), Num(404), NewError(heap, "test error")}
Fallbacks == {Num(0)}
Cases == {[ok |-> "fmt", err |-> "fmtErr"]}

RECURSIVE SeqsUpTo(_, _)
SeqsUpTo(S, n) ==
  IF n = 0 THEN {<<>>}
  ELSE LET shorter == SeqsUpTo(S, n - 1)
       IN shorter \cup {Append(q, x) : q \in {t \in shorter : Len(t) = n - 1}, x \in S}

Arrays == SeqsUpTo(DOMAIN heap, MaxLen)

Init ==
  /\ heap = <<>>
  /\ last = NoCall
  /\ chain = NoChain
  /\ tasks = <<>>

Idle == last.op = "none"

Step(out, call) ==
  /\ Len(out.heap) <= MaxHeap
  /\ heap' = out.heap
  /\ last' = call
  /\ UNCHANGED <<chain, tasks>>

Ok ==
  /\ Idle
  /\ \E value \in OkInputs :
      LET out == ok(heap, value) IN Step(out, MethodCall("ok", 0, NoFn, out))

Err ==
  /\ Idle
  /\ \E error \in ErrInputs :
      LET out == err(heap, error) IN Step(out, MethodCall("err", 0, NoFn, out))

Map ==
  /\ Idle
  /\ \E r \in DOMAIN heap, fn \in ValueFns :
      LET out == map(heap, r, fn) IN Step(out, MethodCall("map", r, fn, out))

MapErr ==
  /\ Idle
  /\ \E r \in DOMAIN heap, fn \in ValueFns :
      LET out == mapErr(heap, r, fn) IN Step(out, MethodCall("mapErr", r, fn, out))

FlatMap ==
  /\ Idle
  /\ \E r \in DOMAIN heap, name \in ResultFns :
      LET out == flatMap(heap, r, Prim(name))
      IN Step(out, MethodCall("flatMap", r, name, out))

Match ==
  /\ Idle
  /\ \E r \in DOMAIN heap, cases \in Cases :
      LET out == match(heap, r, cases)
      IN Step(out, MethodCall("match", r, cases, out))

Unwrap ==
  /\ Idle
  /\ \E r \in DOMAIN heap :
      LET out == unwrap(heap, r) IN Step(out, MethodCall("unwrap", r, NoFn, out))

UnwrapOr ==
  /\ Idle
  /\ \E r \in DOMAIN heap, fallback \in Fallbacks :
      LET out == unwrapOr(heap, r, fallback)
      IN Step(out, MethodCall("unwrapOr", r, fallback, out))

UnwrapOrElse ==
  /\ Idle
  /\ \E r \in DOMAIN heap, fn \in ValueFns :
      LET out == unwrapOrElse(heap, r, fn)
      IN Step(out, MethodCall("unwrapOrElse", r, fn, out))

UnwrapErr ==
  /\ Idle
  /\ \E r \in DOMAIN heap :
      LET out == unwrapErr(heap, r)
      IN Step(out, MethodCall("unwrapErr", r, NoFn, out))

ToJSON ==
  /\ Idle
  /\ \E r \in DOMAIN heap :
      LET out == toJSON(heap, r) IN Step(out, MethodCall("toJSON", r, NoFn, out))

All ==
  /\ Idle
  /\ \E results \in Arrays :
      LET out == all(heap, results) IN Step(out, CombinatorCall("all", results, out))

AllTuple ==
  /\ Idle
  /\ \E results \in Arrays :
      LET out == allTuple(heap, results)
      IN Step(out, CombinatorCall("allTuple", results, out))

Any ==
  /\ Idle
  /\ \E results \in Arrays :
      LET out == any(heap, results) IN Step(out, CombinatorCall("any", results, out))

Partition ==
  /\ Idle
  /\ \E results \in Arrays :
      LET out == partition(heap, results)
      IN Step(out, CombinatorCall("partition", results, out))

\* The caller has looked at the outcome of the call and goes on.
Continue ==
  /\ last.op # "none"
  /\ last' = NoCall
  /\ UNCHANGED <<heap, chain, tasks>>

Stringify ==
  /\ Idle
  /\ \E r \in DOMAIN heap :
      LET out == JSONStringify(heap, r)
      IN Step(out, MethodCall("stringify", r, NoFn, out))

Next ==
  \/ Continue
  \/ Ok
  \/ Err
  \/ Map
  \/ MapErr
  \/ FlatMap
  \/ Match
  \/ Unwrap
  \/ UnwrapOr
  \/ UnwrapOrElse
  \/ UnwrapErr
  \/ ToJSON
  \/ Stringify
  \/ All
  \/ AllTuple
  \/ Any
  \/ Partition

Spec == Init /\ [][Next]_vars

(***************************************************************************)
(* The combinators as functions of their input: the heap holds any Results *)
(* the constructors can build and one combinator is applied to an array of *)
(* them.                                                                   *)
(***************************************************************************)
Pool ==
  {OkObject(Num(10)), OkObject(Num(20)), ErrObject(Str("fail")),
   ErrObject(ErrorObj(1, "test error"))}

InputArrays == SeqsUpTo(DOMAIN heap, MaxResults)

InitCombinators ==
  /\ heap \in SeqsUpTo(Pool, MaxElems)
  /\ last = NoCall
  /\ chain = NoChain
  /\ tasks = <<>>

Combine(out, call) ==
  /\ heap' = out.heap
  /\ last' = call
  /\ UNCHANGED <<chain, tasks>>

CombineAll ==
  /\ Idle
  /\ \E results \in InputArrays :
      LET out == all(heap, results)
      IN Combine(out, CombinatorCall("all", results, out))

CombineAllTuple ==
  /\ Idle
  /\ \E results \in InputArrays :
      LET out == allTuple(heap, results)
      IN Combine(out, CombinatorCall("allTuple", results, out))

CombineAny ==
  /\ Idle
  /\ \E results \in InputArrays :
      LET out == any(heap, results)
      IN Combine(out, CombinatorCall("any", results, out))

CombinePartition ==
  /\ Idle
  /\ \E results \in InputArrays :
      LET out == partition(heap, results)
      IN Combine(out, CombinatorCall("partition", results, out))

NextCombinators ==
  \/ CombineAll
  \/ CombineAllTuple
  \/ CombineAny
  \/ CombinePartition

SpecCombinators == InitCombinators /\ [][NextCombinators]_vars

(***************************************************************************)
(* A flatMap chain start.flatMap(f1).flatMap(f2)...flatMap(fn), one step   *)
(* per call: refs holds the Result each step returned, objs what that      *)
(* Result was when it was returned (objs[1] is start itself) and calls the *)
(* callback invocations each step made.  When the chain has run, the same  *)
(* callbacks are applied to start by one flatMap of the nested closure     *)
(* x => f1(x).flatMap(x => f2(x).flatMap(...)).                            *)
(***************************************************************************)
NonEmptySeqsUpTo(S, n) == SeqsUpTo(S, n) \ {<<>>}

RECURSIVE NestAll(_)
NestAll(fns) ==
  IF Len(fns) = 1 THEN Prim(fns[1])
  ELSE Nested(Prim(fns[1]), NestAll(Tail(fns)))

ChainReceiver ==
  IF chain.refs = <<>> THEN chain.start ELSE chain.refs[Len(chain.refs)]

InitChain ==
  /\ heap \in {<<o>> : o \in Pool}
  /\ last = NoCall
  /\ tasks = <<>>
  /\ chain \in {[pc |-> "run", start |-> 1, fns |-> fns, refs |-> <<>>,
                 objs |-> <<heap[1]>>, calls |-> <<>>, nested |-> 0] :
                  fns \in NonEmptySeqsUpTo(ResultFns, MaxChain)}

ChainStep ==
  /\ chain.pc = "run"
  /\ Len(chain.refs) < Len(chain.fns)
  /\ LET fn == chain.fns[Len(chain.refs) + 1]
         out == flatMap(heap, ChainReceiver, Prim(fn))
     IN /\ heap' = out.heap
        /\ last' = MethodCall("flatMap", ChainReceiver, fn, out)
        /\ chain' = [chain EXCEPT !.refs = Append(@, out.ref),
                                  !.objs = Append(@, out.heap[out.ref]),
                                  !.calls = Append(@, out.calls)]
        /\ UNCHANGED tasks

ChainNested ==
  /\ chain.pc = "run"
  /\ Len(chain.refs) = Len(chain.fns)
  /\ LET out == flatMap(heap, chain.start, NestAll(chain.fns))
     IN /\ heap' = out.heap
        /\ last' = MethodCall("flatMap", chain.start, "nested", out)
        /\ chain' = [chain EXCEPT !.pc = "done", !.nested = out.ref]
        /\ UNCHANGED tasks

NextChain ==
  \/ ChainStep
  \/ ChainNested

SpecChain == InitChain /\ [][NextChain]_vars

(***************************************************************************)
(* The adapters that build a Result from a computation or a value.         *)
(***************************************************************************)
Thunks ==
  {Returns(Num(42)), Returns(Undefined), Throws(NewError(heap, "invalid")),
   Throws(Str("string throw")), Throws(Num(404)), Throws(Null)}

TrySync ==
  /\ Idle
  /\ \E fn \in Thunks :
      LET out == trySync(heap, fn)
      IN Step(out, MethodCall("trySync", 0, fn, out))

Nullables ==
  {Num(42), Num(0), Str(""), Bool(FALSE), Null, Undefined}
SuppliedErrors == {Str("was null"), Undefined}

FromNullable ==
  /\ Idle
  /\ \E value \in Nullables, error \in SuppliedErrors :
      LET out == fromNullable(heap, value, error)
      IN Step(out, MethodCall("fromNullable", 0,
                              [value |-> value, error |-> error], out))

NextAdapters ==
  \/ Continue
  \/ TrySync
  \/ FromNullable

SpecAdapters == Init /\ [][NextAdapters]_vars

(***************************************************************************)
(* The asynchronous adapters.  A promise given to them may be settled      *)
(* already or settle later, or never; a call that waits for a settled      *)
(* promise is resumed by the job queue.                                    *)
(***************************************************************************)
ResolvedValues == {Num(42)}
Reasons == {NewErrorAsync(heap, tasks, "async fail"), Str("string rejection")}

Promises ==
  {Pending} \cup {Resolved(v) : v \in ResolvedValues}
    \cup {Rejected(t) : t \in Reasons}

TryAsync ==
  /\ Len(tasks) < MaxTasks
  /\ \E arg \in {"function", "promise"}, source \in Promises :
      LET c == tryAsync(heap, tasks, arg, source)
      IN /\ heap' = c.heap
         /\ tasks' = Append(tasks, c.task)
  /\ UNCHANGED <<last, chain>>

TryAsyncThrowing ==
  /\ Len(tasks) < MaxTasks
  /\ \E t \in Reasons :
      LET c == tryAsync(heap, tasks, "function", Threw(t))
      IN /\ heap' = c.heap
         /\ tasks' = Append(tasks, c.task)
  /\ UNCHANGED <<last, chain>>

FromPromise ==
  /\ Len(tasks) < MaxTasks
  /\ \E promise \in Promises :
      LET c == fromPromise(heap, tasks, promise)
      IN /\ heap' = c.heap
         /\ tasks' = Append(tasks, c.task)
  /\ UNCHANGED <<last, chain>>

Settle ==
  /\ \E i \in DOMAIN tasks, source \in Promises \ {Pending} :
      /\ tasks[i].source = Pending
      /\ tasks' = [tasks EXCEPT ![i].source = source]
  /\ UNCHANGED <<heap, last, chain>>

ResumeTask(i) ==
  /\ i \in DOMAIN tasks
  /\ tasks[i].pc = "await"
  /\ tasks[i].source.state \in {"resolved", "rejected"}
  /\ LET c == tryAsync_resume(heap, tasks, tasks[i])
     IN /\ heap' = c.heap
        /\ tasks' = [tasks EXCEPT ![i] = c.task]
  /\ UNCHANGED <<last, chain>>

Resume == \E i \in 1..MaxTasks : ResumeTask(i)

NextAsync ==
  \/ TryAsync
  \/ TryAsyncThrowing
  \/ FromPromise
  \/ Settle
  \/ Resume

SpecAsync ==
  Init /\ [][NextAsync]_vars /\ \A i \in 1..MaxTasks : WF_vars(ResumeTask(i))

(***************************************************************************)
(* Properties.                                                             *)
(***************************************************************************)
IsOkObject(o) == o.ok

IsErrObject(o) == ~o.ok

Values(objs) == [i \in 1..Len(objs) |-> objs[i].value]

Errors(objs) == [i \in 1..Len(objs) |-> objs[i].error]

Min(S) == CHOOSE x \in S : \A y \in S : x <= y

ErrIndexes(objs) == {i \in 1..Len(objs) : IsErrObject(objs[i])}

OkIndexes(objs) == {i \in 1..Len(objs) : IsOkObject(objs[i])}

IsNew(ref) == ref = last.before + 1 /\ Len(heap) = last.before + 1

ErrorsHeldBefore ==
  {heap[i].error : i \in 1..last.before} \cup {heap[i].value : i \in 1..last.before}

\* C1: all(rs) returns the first Err of rs in input order, that same
\* instance, having read no element after it; when no element is Err it
\* returns a new Ok holding the success payloads of rs in input order (as
\* many as rs has elements), which for the empty array is Ok of the empty
\* sequence.
C1_AllFirstErrElseValues ==
  last.op = "all" =>
    /\ last.kind = "ref"
    /\ IF ErrIndexes(last.elems) # {}
       THEN /\ last.ref = last.results[Min(ErrIndexes(last.elems))]
            /\ heap[last.ref] = last.elems[Min(ErrIndexes(last.elems))]
            /\ last.scanned = Min(ErrIndexes(last.elems))
            /\ Len(heap) = last.before
       ELSE /\ IsNew(last.ref)
            /\ heap[last.ref] = OkObject(Arr(Values(last.elems)))
            /\ Len(heap[last.ref].value.items) = Len(last.results)
            /\ last.results = <<>> => heap[last.ref].value = Arr(<<>>)

C1_Witness ==
  /\ last.op = "all"
  /\ Len(last.results) = 3
  /\ ErrIndexes(last.elems) = {2, 3}
  /\ last.elems[2] # last.elems[3]
  /\ last.ref = last.results[2]

\* C2: any(rs) returns the first Ok element of rs in input order if there
\* is one; when rs is not empty and every element is Err it returns the last
\* element; when rs is empty it returns (it does not throw) a new Err whose
\* payload is an Error that any() itself creates.
C2_AnyFirstOkElseLastErr ==
  last.op = "any" =>
    /\ last.kind = "ref"
    /\ IF last.results = <<>>
       THEN /\ IsNew(last.ref)
            /\ IsErrObject(heap[last.ref])
            /\ heap[last.ref].value = Absent
            /\ InstanceofError(heap[last.ref].error)
            /\ heap[last.ref].error.message = "any() called with empty array"
            /\ heap[last.ref].error \notin ErrorsHeldBefore
       ELSE /\ Len(heap) = last.before
            /\ IF OkIndexes(last.elems) # {}
               THEN /\ last.ref = last.results[Min(OkIndexes(last.elems))]
                    /\ heap[last.ref] = last.elems[Min(OkIndexes(last.elems))]
               ELSE /\ last.ref = last.results[Len(last.results)]
                    /\ heap[last.ref] = last.elems[Len(last.results)]

C2_Witness ==
  /\ last.op = "any"
  /\ Len(last.results) = 3
  /\ OkIndexes(last.elems) = {}
  /\ last.elems[1] # last.elems[3]
  /\ last.ref = last.results[3]

\* C3: partition(rs) never fails and returns the pair (successes, failures):
\* successes is the subsequence of the Ok payloads of rs in input order,
\* failures the subsequence of its Err payloads in input order, so that the
\* two lengths add up to the length of rs; both are empty for the empty array.
C3_PartitionSplitsInOrder ==
  last.op = "partition" =>
    /\ last.kind = "value"
    /\ last.val = Arr(<<Arr(Values(SelectSeq(last.elems, IsOkObject))),
                        Arr(Errors(SelectSeq(last.elems, IsErrObject)))>>)
    /\ Len(last.val.items[1].items) + Len(last.val.items[2].items)
         = Len(last.results)
    /\ last.results = <<>> => last.val = Arr(<<Arr(<<>>), Arr(<<>>)>>)
    /\ Len(heap) = last.before

C3_Witness ==
  /\ last.op = "partition"
  /\ last.val = Arr(<<Arr(<<Num(20), Num(10)>>), Arr(<<Str("fail")>>)>>)
  /\ IsErrObject(last.elems[2])

ChainRef(i) == IF i = 0 THEN chain.start ELSE chain.refs[i]

ChainFailures == {i \in 0..Len(chain.refs) : IsErrObject(chain.objs[i + 1])}

\* C4: in a chain r.flatMap(f1)...flatMap(fn) the step functions run in
\* order, each once on the value of the Ok before it, only while every
\* earlier result is Ok: once the receiver or a step's result is Err no later
\* step function is invoked and every later result, the final one included,
\* is that first failure with its payload unchanged; when no step fails the
\* final result is the Ok the last step returned.
C4_ChainStopsAtFirstFailure ==
  chain.pc # "idle" =>
    /\ \A j \in 1..Len(chain.refs) :
         IF \E i \in ChainFailures : i < j
         THEN /\ chain.calls[j] = NoCalls
              /\ chain.refs[j] = ChainRef(Min(ChainFailures))
              /\ heap[chain.refs[j]] = chain.objs[Min(ChainFailures) + 1]
         ELSE /\ chain.calls[j]
                   = <<Invocation("fn", chain.fns[j], chain.objs[j].value)>>
              /\ heap[chain.refs[j]] = chain.objs[j + 1]
    /\ (ChainFailures = {} /\ chain.refs # <<>>) =>
         IsOkObject(heap[chain.refs[Len(chain.refs)]])

C4_Witness ==
  /\ chain.pc = "run"
  /\ Len(chain.refs) = 3
  /\ ChainFailures = {2, 3}
  /\ chain.calls[3] = NoCalls
  /\ heap[chain.refs[3]] = ErrObject(Str("too small"))

Equivalent(a, b) == a.ok = b.ok /\ a.value = b.value /\ a.error = b.error

\* C10: flatMap is associative: r.flatMap(f).flatMap(g) and
\* r.flatMap(x => f(x).flatMap(g)) are the same variant with the same
\* payload, for every Result r and all Result-returning f and g (and so for
\* longer chains against their nested form).
C10_FlatMapAssociative ==
  (chain.pc = "done" /\ Len(chain.fns) >= 2) =>
    Equivalent(heap[chain.refs[Len(chain.refs)]], heap[chain.nested])

C10_Witness ==
  /\ chain.pc = "done"
  /\ Len(chain.fns) = 2
  /\ chain.calls[2] # NoCalls
  /\ chain.nested # chain.refs[2]
  /\ heap[chain.nested] = ErrObject(Str("too small"))

\* C5: map invokes f exactly once when the receiver is Ok(v) and returns
\* Ok(f(v)); it does not invoke f when the receiver is Err(e) and returns
\* Err(e) with the same payload.  mapErr is the mirror image: f once on
\* Err(e) giving Err(f(e)), f not invoked on Ok(v) giving Ok(v) with the same
\* payload.
C5_MapInvokesOnOwnVariantOnly ==
  /\ last.op = "map" =>
       /\ last.kind = "ref"
       /\ IF IsOkObject(last.self)
          THEN /\ last.calls = <<Invocation("fn", last.fn, last.self.value)>>
               /\ heap[last.ref] = OkObject(Call(last.fn, last.self.value))
          ELSE /\ last.calls = NoCalls
               /\ heap[last.ref] = ErrObject(last.self.error)
  /\ last.op = "mapErr" =>
       /\ last.kind = "ref"
       /\ IF IsErrObject(last.self)
          THEN /\ last.calls = <<Invocation("fn", last.fn, last.self.error)>>
               /\ heap[last.ref] = ErrObject(Call(last.fn, last.self.error))
          ELSE /\ last.calls = NoCalls
               /\ heap[last.ref] = OkObject(last.self.value)

C5_Witness ==
  /\ last.op = "map"
  /\ last.fn = "fmt"
  /\ last.recv = 2
  /\ last.self = ErrObject(Num(404))
  /\ heap[last.ref] = ErrObject(Num(404))

\* C6: a call of match invokes exactly one of the two handlers, exactly
\* once: the ok handler with the value if and only if the Result is Ok, the
\* err handler with the error if and only if it is Err; it returns what that
\* handler returned.
C6_MatchInvokesExactlyOneHandler ==
  last.op = "match" =>
    /\ last.kind = "value"
    /\ Len(last.calls) = 1
    /\ IF IsOkObject(last.self)
       THEN /\ last.calls[1] = Invocation("ok", last.fn.ok, last.self.value)
            /\ last.val = Call(last.fn.ok, last.self.value)
       ELSE /\ last.calls[1] = Invocation("err", last.fn.err, last.self.error)
            /\ last.val = Call(last.fn.err, last.self.error)

C6_Witness ==
  /\ last.op = "match"
  /\ IsErrObject(last.self)
  /\ InstanceofError(last.self.error)
  /\ last.val = Str("error: Error: test error")

\* C7: unwrap on Ok(v) returns v; unwrap on Err(e) does not return but
\* throws: e itself when e is an Error, otherwise a new Error whose message
\* is the textual form of e.
C7_UnwrapReturnsValueOrThrows ==
  last.op = "unwrap" =>
    IF IsOkObject(last.self)
    THEN last.kind = "value" /\ last.val = last.self.value
    ELSE /\ last.kind = "throw"
         /\ IF InstanceofError(last.self.error)
            THEN last.val = last.self.error
            ELSE /\ InstanceofError(last.val)
                 /\ last.val.message = String(last.self.error)
                 /\ last.val \notin ErrorsHeldBefore

C7_Witness ==
  /\ last.op = "unwrap"
  /\ last.self = ErrObject(Num(404))
  /\ last.kind = "throw"
  /\ last.val.message = "404"

Core ==
  {"map", "mapErr", "flatMap", "match", "unwrap", "unwrapOr", "unwrapOrElse",
   "unwrapErr", "toJSON", "all", "allTuple", "any", "partition"}

\* C8: with callbacks that do not throw, a core operation throws if and
\* only if it is unwrap called on an Err or unwrapErr called on an Ok: map,
\* mapErr, flatMap, match, unwrapOr, unwrapOrElse, toJSON, all, allTuple, any
\* and partition return on every input.
C8_OnlyUnwrapOnWrongVariantThrows ==
  last.op \in Core =>
    (last.kind = "throw" <=>
       \/ last.op = "unwrap" /\ IsErrObject(last.self)
       \/ last.op = "unwrapErr" /\ IsOkObject(last.self))

C8_Witness ==
  /\ last.op = "unwrapErr"
  /\ IsOkObject(last.self)
  /\ last.kind = "throw"
  /\ last.val.message = "Called unwrapErr() on an Ok result"

OneVariant(o) ==
  \/ o.ctor = "createOk" /\ o.ok /\ o.value # Absent /\ o.error = Absent
  \/ o.ctor = "createErr" /\ ~o.ok /\ o.error # Absent /\ o.value = Absent

EveryInstanceIsOneVariant == \A i \in DOMAIN heap : OneVariant(heap[i])

InputsAsBefore ==
  /\ last.recv # 0 => heap[last.recv] = last.self
  /\ \A i \in 1..Len(last.results) : heap[last.results[i]] = last.elems[i]
  /\ last.op \in {"all", "allTuple", "any", "partition"} =>
       last.resultsAfter = last.results

NothingMutated ==
  \A i \in DOMAIN heap : i \in DOMAIN heap' /\ heap'[i] = heap[i]

ReturnsResult ==
  last.op \in {"map", "mapErr", "flatMap", "all", "allTuple", "any"}

\* C9 as stated: every instance is in exactly one variant, no call changes
\* its receiver, its input array or the elements, and every transformation
\* (map, mapErr, flatMap) and every combinator that returns a Result returns
\* a new instance.
C9_AlwaysNewInstance ==
  /\ EveryInstanceIsOneVariant
  /\ InputsAsBefore
  /\ ReturnsResult => (last.kind = "ref" /\ IsNew(last.ref))

ReturnedInstance ==
  /\ last.op = "map" =>
       IF IsOkObject(last.self) THEN IsNew(last.ref) ELSE last.ref = last.recv
  /\ last.op = "mapErr" =>
       IF IsErrObject(last.self) THEN IsNew(last.ref) ELSE last.ref = last.recv
  /\ last.op = "flatMap" =>
       IF IsErrObject(last.self) THEN last.ref = last.recv
       ELSE last.ref \in DOMAIN heap
  /\ last.op \in {"all", "allTuple"} =>
       IF ErrIndexes(last.elems) = {} THEN IsNew(last.ref)
       ELSE last.ref = last.results[Min(ErrIndexes(last.elems))]
  /\ last.op = "any" =>
       IF last.results = <<>> THEN IsNew(last.ref)
       ELSE \E i \in 1..Len(last.results) : last.ref = last.results[i]
  /\ (ReturnsResult /\ ~IsNew(last.ref)) => Len(heap) = last.before

\* C9 amended: every instance is in exactly one variant for its whole
\* lifetime and no call changes its receiver, its input array or the
\* elements: every Result that exists keeps its tag and payload through
\* every later call.  A call returns a new instance only when it builds a
\* payload (map on Ok, mapErr on Err, all and allTuple without an Err, any of
\* the empty array); otherwise it returns an existing instance as it is: the
\* receiver for map and flatMap on Err and mapErr on Ok, the first Err
\* element for all and allTuple, one of the elements for any, and for
\* flatMap on Ok the Result its callback returned.
C9_ImmutableInstances ==
  /\ [](EveryInstanceIsOneVariant /\ InputsAsBefore /\ ReturnedInstance)
  /\ [][NothingMutated]_vars

C9_Witness ==
  /\ last.op = "mapErr"
  /\ last.recv = 1
  /\ last.self = ErrObject(Str("fail"))
  /\ heap = <<ErrObject(Str("fail")), ErrObject(Str("value: fail"))>>

Decode(record) ==
  IF record.ok THEN OkObject(record.value) ELSE ErrObject(record.error)

Record(o) ==
  IF IsOkObject(o) THEN [kind |-> "object", ok |-> TRUE, value |-> o.value]
  ELSE [kind |-> "object", ok |-> FALSE, error |-> o.error]

\* C11: toJSON on Ok(v) returns exactly the record {ok: true, value: v} and
\* on Err(e) exactly {ok: false, error: e}, the payload as it is, so that
\* the record decodes back to a Result of the same variant and payload; and
\* JSON.stringify of a Result gives the text of that record.
C11_ToJSONIsTheTaggedRecord ==
  /\ last.op = "toJSON" =>
       /\ last.kind = "value"
       /\ last.val = Record(last.self)
       /\ DOMAIN last.val =
            IF IsOkObject(last.self) THEN {"kind", "ok", "value"}
            ELSE {"kind", "ok", "error"}
       /\ Equivalent(Decode(last.val), last.self)
       /\ last.calls = NoCalls
  /\ last.op = "stringify" =>
       /\ last.kind = "value"
       /\ last.val = Str(Serialize(Record(last.self)))

C11_Witness ==
  /\ last.op = "stringify"
  /\ last.self = ErrObject(Num(404))
  /\ last.val = Str("{\"ok\":false,\"error\":404}")

\* C12: trySync(fn) invokes fn exactly once and never throws: when fn
\* returns x the result is Ok(x); when fn throws t the result is Err(t) if t
\* is an Error, and otherwise Err of a new Error whose message is the textual
\* form of t.
C12_TrySyncWrapsReturnOrThrow ==
  last.op = "trySync" =>
    /\ last.kind = "ref"
    /\ IsNew(last.ref)
    /\ last.calls = <<Invocation("fn", last.fn, Absent)>>
    /\ IF last.fn.does = "return"
       THEN heap[last.ref] = OkObject(last.fn.val)
       ELSE /\ IsErrObject(heap[last.ref])
            /\ heap[last.ref].value = Absent
            /\ IF InstanceofError(last.fn.val)
               THEN heap[last.ref].error = last.fn.val
               ELSE /\ InstanceofError(heap[last.ref].error)
                    /\ heap[last.ref].error.message = String(last.fn.val)
                    /\ heap[last.ref].error \notin ErrorsHeldBefore

C12_Witness ==
  /\ last.op = "trySync"
  /\ last.fn = Throws(Num(404))
  /\ IsErrObject(heap[last.ref])
  /\ heap[last.ref].error.message = "404"

\* C14: fromNullable(x, e) returns Err(e) if and only if x is null or
\* undefined and returns Ok(x) otherwise; 0, the empty string and false are
\* present values and give Ok.
C14_FromNullableErrIffNullish ==
  last.op = "fromNullable" =>
    /\ last.kind = "ref"
    /\ IsNew(last.ref)
    /\ last.calls = NoCalls
    /\ heap[last.ref] = ErrObject(last.fn.error)
         <=> last.fn.value \in {Null, Undefined}
    /\ last.fn.value \notin {Null, Undefined} =>
         heap[last.ref] = OkObject(last.fn.value)
    /\ last.fn.value \in {Num(0), Str(""), Bool(FALSE)} =>
         IsOkObject(heap[last.ref])

C14_Witness ==
  /\ last.op = "fromNullable"
  /\ last.fn.value = Bool(FALSE)
  /\ heap[last.ref] = OkObject(Bool(FALSE))
  /\ Len(heap) = 2
  /\ heap[1] = ErrObject(Str("was null"))

Settled(i) ==
  /\ i \in DOMAIN tasks
  /\ tasks[i].source.state \in {"resolved", "rejected", "threw"}

ResolvedWithResult(i) ==
  /\ i \in DOMAIN tasks
  /\ tasks[i].returned = "resolved"
  /\ tasks[i].result \in DOMAIN heap
  /\ IF tasks[i].source.state = "resolved"
     THEN heap[tasks[i].result] = OkObject(tasks[i].source.val)
     ELSE /\ IsErrObject(heap[tasks[i].result])
          /\ heap[tasks[i].result].value = Absent
          /\ IF InstanceofError(tasks[i].source.val)
             THEN heap[tasks[i].result].error = tasks[i].source.val
             ELSE /\ InstanceofError(heap[tasks[i].result].error)
                  /\ heap[tasks[i].result].error.message
                       = String(tasks[i].source.val)

\* C13: for tryAsync and fromPromise, given a promise or a function that
\* returns one: the promise they return never rejects; while it is not
\* resolved the call is waiting for a source that has not been consumed; and
\* whenever the source settles (or the function itself throws) the returned
\* promise gets resolved, with Ok(value) if the source resolved and with
\* Err(e) if it rejected or the function threw, e being the reason itself
\* when it is an Error and otherwise a new Error whose message is its
\* textual form.
C13_TryAsyncAlwaysResolves ==
  /\ [](\A i \in DOMAIN tasks :
          /\ tasks[i].returned # "rejected"
          /\ tasks[i].returned = "resolved" => (Settled(i) /\ ResolvedWithResult(i))
          /\ tasks[i].returned = "pending" => tasks[i].pc = "await")
  /\ \A i \in 1..MaxTasks : Settled(i) ~> ResolvedWithResult(i)

C13_Witness ==
  /\ Len(tasks) = 2
  /\ tasks[1].via = "fromPromise"
  /\ tasks[1].source = Rejected(Str("string rejection"))
  /\ tasks[1].returned = "resolved"
  /\ heap[tasks[1].result].error.message = "string rejection"
  /\ tasks[2].via = "tryAsync"
  /\ tasks[2].returned = "pending"

====
